---- MODULE Spec2Model ----
(***************************************************************************)
(* Model of the camera process supervisor of manage-cameras                *)
(* (src/src/index.ts): the live-process map, the ChildProcess fields the   *)
(* supervisor reads, the four terminal events, killProcess / killProcesses *)
(* with their 2000 ms timer, startCameras, the /restart handler and the    *)
(* termination-signal handlers; the control handlers (/request, /record,   *)
(* /stoprecord, /play, /pause, /stop, /setCameraNames) with writeLn; the   *)
(* discovery (the cap parser of src/src/parse.ts and getCameras) and the   *)
(* format selection of startCamera; the /status handler with its file      *)
(* system calls; the Date that formatDate reads in the host's time zone.   *)
(*                                                                         *)
(* Node runs every callback to completion and drains the promise           *)
(* continuations (microtasks) before the next event, timer or request is   *)
(* dispatched.  One action of the model is therefore one dispatched        *)
(* callback together with every continuation it makes runnable.            *)
(***************************************************************************)
EXTENDS Integers, Sequences, FiniteSets, TLC

\* ---- bounds of the model ------------------------------------------------
MaxPids == 2        \* processes spawned over one run
MaxCalls == 2       \* killProcesses invocations (restart requests + signals)
MaxEvents == 2      \* terminal events dispatched over one run
MaxDevices == 2     \* devices one discovery reports
Quantum == 2000     \* step of the passage of time, in ms

\* ---- program constants ---------------------------------------------------
KillTimeout == 2000
BasePort == 5000
sigs == {"SIGTERM", "SIGINT", "SIGQUIT"}

Null == "null"
Pids == 1..MaxPids
TerminalEvents == {"exit", "error", "close", "disconnect"}
\* what becomes of one discovered device in startCameras
DeviceKinds == {"spawn", "nomatch", "spawnfail"}
Discoveries == UNION {[1..n -> DeviceKinds] : n \in 0..MaxDevices}

VARIABLES
  phase,            \* "startup" (awaiting line 296), "serving", "crashed", "exited"
  exitStatus,       \* status passed to process.exit, -1 while the program runs
  cameraProcesses,  \* the live-process map: pid -> port
  nextPid,          \* pids below nextPid have been spawned (no pid is reused)
  exitCode,         \* ChildProcess.exitCode of every pid
  signalCode,       \* ChildProcess.signalCode of every pid
  signalSent,       \* the signal kill() delivered last to the pid, Null if none
  nEvents,          \* number of terminal events the pid has emitted
  calls,            \* the killProcesses invocations, in the order they were made
  stdin,            \* ChildProcess.stdin of every pid: is the stream writable
  requests,         \* the invocations of the control handlers, in arrival order
  currentRecordFiles, \* the stems of the current record operation (line 311)
  cameraNames,      \* the Map of line 288: its entries and its own properties
  stage,            \* how far one discovery has got: "idle", "exec" (the output
                    \* is read), "parsed", "listed" or "rejected"
  gstOutput,        \* the devices of the output, their caps as the lines of text
  gstDevices,       \* the result of parseGstDevices
  cameraList,       \* the result of getCameras
  cameraProperties, \* the argument of one call of startCamera
  cameraProcess,    \* the result of that call
  statusRequest,    \* the invocation of the /status handler, its position
  timeZone,         \* the time zone of the host, which Date reads
  now,              \* the clock: seconds since 2024-11-03T00:00:00Z
  stems             \* the stems made so far, each with the time of its call

vars == <<phase, exitStatus, cameraProcesses, nextPid, exitCode, signalCode,
          signalSent, nEvents, calls, stdin, requests, currentRecordFiles,
          cameraNames, stage, gstOutput, gstDevices, cameraList,
          cameraProperties, cameraProcess, statusRequest, timeZone, now,
          stems>>

\* the variables of the supervisor, and those of one discovery
svars == <<phase, exitStatus, cameraProcesses, nextPid, exitCode, signalCode,
           signalSent, nEvents, calls, stdin, requests, currentRecordFiles,
           cameraNames>>
dvars == <<stage, gstOutput, gstDevices, cameraList, cameraProperties,
           cameraProcess>>
\* the variables of the status handler and of the clock
evars == <<statusRequest, timeZone, now, stems>>

State ==
  [phase |-> phase, exitStatus |-> exitStatus, cameraProcesses |-> cameraProcesses,
   nextPid |-> nextPid, exitCode |-> exitCode, signalCode |-> signalCode,
   signalSent |-> signalSent, nEvents |-> nEvents, calls |-> calls,
   stdin |-> stdin, requests |-> requests,
   currentRecordFiles |-> currentRecordFiles, cameraNames |-> cameraNames]

Becomes(s) ==
  /\ phase' = s.phase
  /\ exitStatus' = s.exitStatus
  /\ cameraProcesses' = s.cameraProcesses
  /\ nextPid' = s.nextPid
  /\ exitCode' = s.exitCode
  /\ signalCode' = s.signalCode
  /\ signalSent' = s.signalSent
  /\ nEvents' = s.nEvents
  /\ calls' = s.calls
  /\ stdin' = s.stdin
  /\ requests' = s.requests
  /\ currentRecordFiles' = s.currentRecordFiles
  /\ cameraNames' = s.cameraNames
  /\ UNCHANGED dvars
  /\ UNCHANGED evars

Min(a, b) == IF a < b THEN a ELSE b

\* ---- Map<number, CameraProcess> ------------------------------------------
\* a removal that, for a key that is absent, drops the last entry instead
\* (list.splice(list.indexOf(k), 1))
MapDelete_SpliceMissing(m, k) ==
  IF k \in DOMAIN m THEN [q \in DOMAIN m \ {k} |-> m[q]]
  ELSE [q \in {r \in DOMAIN m : \E r2 \in DOMAIN m : r2 > r} |-> m[q]]

MapDelete(m, k) == [q \in DOMAIN m \ {k} |-> m[q]]
MapSet(m, k, v) == [q \in DOMAIN m \cup {k} |-> IF q = k THEN v ELSE m[q]]

\* ---- ChildProcess ---------------------------------------------------------
\* ChildProcess.killed: kill() has delivered a signal to the process
killed(s, p) == s.signalSent[p] # Null

\* killProcess line 152: the process already has an exit code or a signal code
hasExited(s, p) == s.exitCode[p] # Null \/ s.signalCode[p] # Null

\* killProcess line 147: the default of the signal parameter
KillSignal(signal) == IF signal = "undefined" THEN "SIGINT" ELSE signal

\* ---- promises -------------------------------------------------------------
\* a barrier that waits until every task has fulfilled
allSettledDone_AllFulfilled(tasks) ==
  \A p \in DOMAIN tasks : tasks[p] = "fulfilled"

\* a barrier that opens with the first task that settles (Promise.race)
allSettledDone_FirstSettled(tasks) ==
  \/ DOMAIN tasks = {}
  \/ \E p \in DOMAIN tasks : tasks[p] # "pending"

\* Promise.allSettled settles once no task is pending ...
allSettledDone(tasks) == \A p \in DOMAIN tasks : tasks[p] # "pending"
\* ... and it always fulfils, whatever the tasks did
allSettledStatus(tasks) == "fulfilled"
\* .catch() without a handler passes the outcome through
catchNoHandler(status) == status

processExit(s, code) == [s EXCEPT !.phase = "exited", !.exitStatus = code]

\* /restart lines 347-349: the rejected results of killProcesses
failed(tasks) == {p \in DOMAIN tasks : tasks[p] = "rejected"}

\* a restart that respawns without looking at the failed kills
restartAfterKill_NoCheck(s, c) ==
  [s EXCEPT !.calls[c].pc = "getCameras", !.calls[c].startAll = TRUE]

\* /restart lines 350-356, after killProcesses has returned
restartAfterKill(s, c) ==
  IF Cardinality(failed(s.calls[c].tasks)) > 0
    THEN [s EXCEPT !.calls[c].pc = "done", !.calls[c].response = 500]
    ELSE [s EXCEPT !.calls[c].pc = "getCameras", !.calls[c].startAll = TRUE]

RECURSIVE killProcesses(_, _, _), Settled(_, _)

\* the continuation of the caller once the promise of killProcesses settles
Settled(s, c) ==
  LET s1 == [s EXCEPT !.calls[c].after = DOMAIN s.cameraProcesses,
                      !.calls[c].returned = TRUE]
      kind == s.calls[c].kind
  IN CASE kind = "restart" -> restartAfterKill(s1, c)
       [] kind = "shutdown" ->
            IF allSettledStatus(s1.calls[c].tasks) = "fulfilled"
              THEN processExit([s1 EXCEPT !.calls[c].pc = "done"], 0)
              ELSE killProcesses([s1 EXCEPT !.calls[c].pc = "done"],
                                 "escalate", "SIGKILL")
       [] kind = "escalate" ->
            processExit([s1 EXCEPT !.calls[c].pc = "done"], 1)

\* killProcesses lines 175-192, with the executor of each killProcess
killProcesses(s, kind, signal) ==
  LET keys == DOMAIN s.cameraProcesses
      removed == {p \in keys : killed(s, p) \/ s.signalCode[p] # Null}
      toKill == keys \ removed
      gone == {p \in toKill : hasExited(s, p)}
      signalled == toKill \ gone
      call == [kind |-> kind, signal |-> signal, pc |-> "killing",
               before |-> keys, removed |-> removed,
               tasks |-> [p \in toKill |->
                            IF p \in gone THEN "fulfilled" ELSE "pending"],
               elapsed |-> [p \in toKill |-> 0],
               returned |-> FALSE, after |-> {},
               startAll |-> FALSE, response |-> 0]
      s1 == [s EXCEPT
               !.cameraProcesses = [q \in keys \ (removed \cup gone) |-> @[q]],
               !.signalSent = [p \in Pids |->
                                 IF p \in signalled THEN KillSignal(signal)
                                 ELSE @[p]],
               !.calls = Append(@, call)]
  IN IF allSettledDone(call.tasks) THEN Settled(s1, Len(s1.calls)) ELSE s1

\* the promise of killProcess(p) in call c settles: .finally (off), .catch(),
\* .finally (delete) run, then Promise.allSettled looks at the tasks; the
\* time a fulfilled kill had waited is forgotten
settle(s, c, p, status) ==
  LET s1 == [s EXCEPT !.calls[c].tasks[p] = catchNoHandler(status),
                      !.calls[c].elapsed[p] = IF status = "rejected" THEN @ ELSE 0,
                      !.cameraProcesses = MapDelete(@, p)]
  IN IF allSettledDone(s1.calls[c].tasks) THEN Settled(s1, c) ELSE s1

\* the calls whose killProcess listener (exitCb) is registered on p
listening(s, p) ==
  {c \in 1..Len(s.calls) :
     /\ p \in DOMAIN s.calls[c].tasks
     /\ s.calls[c].tasks[p] = "pending"}

\* observers of which the one of "close" forgets the removal
observer_CloseKeeps(m, pid, ev) ==
  IF ev = "close" THEN m ELSE [q \in DOMAIN m \ {pid} |-> m[q]]

\* startCameras lines 239-254: every observer deletes the pid from the map
observer(m, pid, ev) == MapDelete(m, pid)

\* observers that also forget the name of the process
emit_ForgetsName(s, p, ev, how) ==
  LET s1 == [s EXCEPT
               !.nEvents[p] = @ + 1,
               !.exitCode[p] = IF ev = "exit" /\ how = "code" THEN "0" ELSE @,
               !.signalCode[p] =
                  IF ev = "exit" /\ how = "signal"
                    THEN (IF s.signalSent[p] # Null THEN s.signalSent[p]
                          ELSE "SIGKILL")
                    ELSE @,
               !.cameraProcesses = observer(@, p, ev),
               !.cameraNames = [entries |-> << >>, props |-> << >>]]
      cs == listening(s, p)
  IN IF cs = {} THEN s1
     ELSE settle(s1, CHOOSE c \in cs : TRUE, p, "fulfilled")

\* a terminal event of process p is dispatched: the observers of startCameras
\* run first, then the listener of a pending killProcess
emit(s, p, ev, how) ==
  LET s1 == [s EXCEPT
               !.nEvents[p] = @ + 1,
               !.exitCode[p] = IF ev = "exit" /\ how = "code" THEN "0" ELSE @,
               !.signalCode[p] =
                  IF ev = "exit" /\ how = "signal"
                    THEN (IF s.signalSent[p] # Null THEN s.signalSent[p]
                          ELSE "SIGKILL")
                    ELSE @,
               !.cameraProcesses = observer(@, p, ev)]
      cs == listening(s, p)
  IN IF cs = {} THEN s1
     ELSE settle(s1, CHOOSE c \in cs : TRUE, p, "fulfilled")

\* startCamera lines 199-218 and the loop of startCameras lines 234-262; a
\* process whose spawn failed has no pid, and the entry set for it is deleted
\* by its error observer before any other callback is dispatched
\* a loop that the first failed spawn ends
RECURSIVE startCamerasLoop_SpawnFailureEnds(_, _, _)
startCamerasLoop_SpawnFailureEnds(s, cameras, i) ==
  IF i > Len(cameras) \/ cameras[i] = "spawnfail" THEN s
  ELSE IF cameras[i] = "spawn"
    THEN startCamerasLoop_SpawnFailureEnds(
           [s EXCEPT !.cameraProcesses = MapSet(@, s.nextPid, BasePort + (i - 1)),
                     !.nextPid = @ + 1],
           cameras, i + 1)
    ELSE startCamerasLoop_SpawnFailureEnds(s, cameras, i + 1)

\* a loop that gives the next free port to each process it spawns
RECURSIVE startCamerasLoop_PortPerSpawn(_, _, _)
startCamerasLoop_PortPerSpawn(s, cameras, i) ==
  IF i > Len(cameras) THEN s
  ELSE IF cameras[i] = "spawn"
    THEN startCamerasLoop_PortPerSpawn(
           [s EXCEPT !.cameraProcesses =
                        MapSet(@, s.nextPid,
                               BasePort + Cardinality({j \in 1..(i - 1) :
                                                         cameras[j] = "spawn"})),
                     !.nextPid = @ + 1],
           cameras, i + 1)
    ELSE startCamerasLoop_PortPerSpawn(s, cameras, i + 1)

RECURSIVE startCamerasLoop(_, _, _)
startCamerasLoop(s, cameras, i) ==
  IF i > Len(cameras) THEN s
  ELSE IF cameras[i] = "spawn"
    THEN startCamerasLoop(
           [s EXCEPT !.cameraProcesses = MapSet(@, s.nextPid, BasePort + (i - 1)),
                     !.nextPid = @ + 1],
           cameras, i + 1)
    ELSE startCamerasLoop(s, cameras, i + 1)

Spawns(cameras) == Cardinality({i \in DOMAIN cameras : cameras[i] = "spawn"})

\* no discovery is looked into
NoDiscovery ==
  /\ stage = "idle"
  /\ gstOutput = << >>
  /\ gstDevices = << >>
  /\ cameraList = << >>
  /\ cameraProperties = [path |-> "", formats |-> << >>]
  /\ cameraProcess = [kind |-> "none"]

SupervisorInit ==
  /\ phase = "startup"
  /\ exitStatus = -1
  /\ cameraProcesses = << >>
  /\ nextPid = 1
  /\ exitCode = [p \in Pids |-> Null]
  /\ signalCode = [p \in Pids |-> Null]
  /\ signalSent = [p \in Pids |-> Null]
  /\ nEvents = [p \in Pids |-> 0]
  /\ calls = << >>
  /\ stdin = [p \in Pids |-> "writable"]
  /\ requests = << >>
  /\ currentRecordFiles = << >>
  /\ cameraNames = [entries |-> << >>, props |-> << >>]

\* no /status request has arrived, and the clock is not looked at
NoStatus ==
  [pc |-> "none", freeStorage |-> Null, files |-> << >>, videoFiles |-> << >>,
   response |-> 0, processes |-> << >>]
Idle ==
  /\ statusRequest = NoStatus
  /\ timeZone = "UTC"
  /\ now = 0
  /\ stems = << >>

Init == SupervisorInit /\ NoDiscovery /\ Idle

\* line 296: getCameras of the startup startCameras returns a device list
Startup(cameras) ==
  /\ phase = "startup"
  /\ nextPid + Spawns(cameras) - 1 <= MaxPids
  /\ Becomes(startCamerasLoop([State EXCEPT !.phase = "serving"], cameras, 1))

\* line 296: getCameras rejects, the top-level await throws
StartupFails ==
  /\ phase = "startup"
  /\ Becomes([State EXCEPT !.phase = "crashed", !.exitStatus = 1])

\* GET /restart, lines 346-349
Restart ==
  /\ phase = "serving"
  /\ Len(calls) < MaxCalls
  /\ Becomes(killProcesses(State, "restart", "undefined"))

\* lines 355-362: getCameras of the restart's startCameras returns
RestartStarts(c, cameras) ==
  /\ phase = "serving"
  /\ c <= Len(calls)
  /\ calls[c].kind = "restart" /\ calls[c].pc = "getCameras"
  /\ nextPid + Spawns(cameras) - 1 <= MaxPids
  /\ Becomes(startCamerasLoop(
       [State EXCEPT !.calls[c].pc = "done", !.calls[c].response = 200],
       cameras, 1))

\* lines 357-359: getCameras rejects inside the restart
RestartStartFails(c) ==
  /\ phase = "serving"
  /\ c <= Len(calls)
  /\ calls[c].kind = "restart" /\ calls[c].pc = "getCameras"
  /\ Becomes([State EXCEPT !.calls[c].pc = "done", !.calls[c].response = 500])

\* lines 393-403: a termination signal reaches the program
Signal(sig) ==
  /\ phase = "serving"
  /\ Len(calls) < MaxCalls
  /\ Becomes(killProcesses(State, "shutdown", sig))

RECURSIVE Sum(_, _)
Sum(f, n) == IF n = 0 THEN 0 ELSE f[n] + Sum(f, n - 1)
\* the terminal events dispatched so far
EventsSoFar == Sum(nEvents, MaxPids)

\* a spawned process emits exit (with a code or by a signal)
EmitExit(p, how) ==
  /\ phase = "serving"
  /\ p < nextPid
  /\ EventsSoFar < MaxEvents
  /\ ~hasExited(State, p)
  /\ Becomes(emit(State, p, "exit", how))

\* a spawned process emits error, close or disconnect
EmitOther(p, ev) ==
  /\ phase = "serving"
  /\ p < nextPid
  /\ EventsSoFar < MaxEvents
  /\ Becomes(emit(State, p, ev, "code"))

pendingTasks ==
  {<<c, p>> \in (1..Len(calls)) \X Pids :
     p \in DOMAIN calls[c].tasks /\ calls[c].tasks[p] = "pending"}

\* time passes; no timer of line 160 is left behind its expiry
Tick ==
  /\ phase = "serving"
  /\ pendingTasks # {}
  /\ \A t \in pendingTasks : calls[t[1]].elapsed[t[2]] < KillTimeout
  /\ calls' = [c \in 1..Len(calls) |->
                [calls[c] EXCEPT !.elapsed =
                   [p \in DOMAIN calls[c].tasks |->
                      IF calls[c].tasks[p] = "pending"
                        THEN Min(@[p] + Quantum, KillTimeout) ELSE @[p]]]]
  /\ UNCHANGED <<phase, exitStatus, cameraProcesses, nextPid, exitCode,
                 signalCode, signalSent, nEvents, stdin, requests,
                 currentRecordFiles, cameraNames>>
  /\ UNCHANGED dvars
  /\ UNCHANGED evars

\* a killProcess without the timer (as the first versions of it had none)
Timeout_NoTimer(c, p) ==
  /\ <<c, p>> \in pendingTasks
  /\ FALSE
  /\ UNCHANGED vars

\* line 160: the timer of a pending killProcess fires and rejects it
Timeout(c, p) ==
  /\ phase = "serving"
  /\ <<c, p>> \in pendingTasks
  /\ calls[c].elapsed[p] >= KillTimeout
  /\ Becomes(settle(State, c, p, "rejected"))

Next ==
  \/ \E cameras \in Discoveries : Startup(cameras)
  \/ StartupFails
  \/ Restart
  \/ \E c \in 1..MaxCalls, cameras \in Discoveries : RestartStarts(c, cameras)
  \/ \E c \in 1..MaxCalls : RestartStartFails(c)
  \/ \E sig \in sigs : Signal(sig)
  \/ \E p \in Pids, how \in {"code", "signal"} : EmitExit(p, how)
  \/ \E p \in Pids, ev \in TerminalEvents \ {"exit"} : EmitOther(p, ev)
  \/ Tick
  \/ \E c \in 1..MaxCalls, p \in Pids : Timeout(c, p)

Spec == Init /\ [][Next]_vars

\* timers fire and time passes: the event loop dispatches an expired timer
Fairness ==
  /\ WF_vars(Tick)
  /\ WF_vars(\E c \in 1..MaxCalls, p \in Pids : Timeout(c, p))

FairSpec == Spec /\ Fairness

\* ---- strings --------------------------------------------------------------
Digits == <<"0", "1", "2", "3", "4", "5", "6", "7", "8", "9">>

\* String(n) of a non-negative integer
RECURSIVE NumToStr(_)
NumToStr(n) ==
  IF n < 10 THEN Digits[n + 1] ELSE NumToStr(n \div 10) \o Digits[(n % 10) + 1]

RECURSIVE padStart(_, _, _)
padStart(str, places, fill) ==
  IF Len(str) >= places THEN str ELSE padStart(fill \o str, places, fill)

\* line 219
zeroPad(num, places) == padStart(NumToStr(num), places, "0")

\* formatDate lines 223-226; date.month is Date.getMonth(), 0 for January
formatDate(date) ==
  zeroPad(date.year, 4) \o "-" \o zeroPad(date.month + 1, 2) \o "-"
    \o zeroPad(date.date, 2) \o "-" \o zeroPad(date.hours, 2) \o "-"
    \o zeroPad(date.minutes, 2) \o "-" \o zeroPad(date.seconds, 2)

\* String.replaceAll of one character by a string
RECURSIVE replaceAll(_, _, _)
replaceAll(str, ch, by) ==
  IF str = "" THEN ""
  ELSE (IF SubSeq(str, 1, 1) = ch THEN by ELSE SubSeq(str, 1, 1))
         \o replaceAll(SubSeq(str, 2, Len(str)), ch, by)

\* path.join of a directory and a file name that has no separator in it
join(dir, file) == dir \o "/" \o file

\* ---- inputs of the control handlers ------------------------------------------
MaxRequests == 2    \* handler invocations over one run
VideoDir == "/video"                 \* process.env.VIDEO_DIR, line 45
ClientIp == "10.0.0.7"               \* the last component of req.ip, line 301
Sessions == {"s1"}                   \* req.query.session of /record
Labels == {"Front"}                  \* the labels set-camera-names assigns
Commands == {"play", "pause", "stop"}
Date0 == [year |-> 2024, month |-> 0, date |-> 5,
          hours |-> 9, minutes |-> 3, seconds |-> 7]
Date1 == [Date0 EXCEPT !.seconds = 8]
Dates == {Date0, Date1}              \* the values of new Date()
\* req.query of /setCameraNames: the pid (as the text of the key) to its label
Queries == [{NumToStr(1)} -> Labels]

\* ---- Map.get, Object.assign --------------------------------------------------
Undefined == "undefined"
MapGet(m, k) == IF k \in DOMAIN m THEN m[k] ELSE Undefined

\* line 385: Object.assign(cameraNames, req.query) defines own properties on
\* the Map object; the entries that Map.get reads are not touched
setCameraNames(names, query) ==
  [names EXCEPT !.props =
     [k \in DOMAIN @ \cup DOMAIN query |->
        IF k \in DOMAIN query THEN query[k] ELSE @[k]]]

\* ---- writeLn ------------------------------------------------------------------
CannotWrite == "Cannot write to process stdin"
\* the stdin of a ChildProcess: Null (no stream), "writable" or "destroyed"
Streams == {Null, "writable", "destroyed"}
writable(stream) == stream = "writable"

\* a writeLn without the guard of line 270
writeLn_NoGuard(stream, str) ==
  [status |-> "pending", error |-> Null, chunk |-> str \o "\n", acks |-> 0]

\* writeLn lines 268-274: the executor of the promise, up to the call of
\* write; write does not throw for a string chunk
writeLn(stream, str) ==
  IF stream = Null \/ ~writable(stream)
    THEN [status |-> "rejected", error |-> CannotWrite, chunk |-> "", acks |-> 0]
    ELSE [status |-> "pending", error |-> Null, chunk |-> str \o "\n", acks |-> 0]

\* a callback that resolves whatever the write reports
writeCallback_IgnoresError(w, err) ==
  [w EXCEPT !.status = "resolved", !.error = err, !.acks = @ + 1]

\* lines 275-278: the callback of write settles the promise
writeCallback(w, err) ==
  [w EXCEPT !.status = IF err # Null THEN "rejected" ELSE "resolved",
            !.error = err,
            !.acks = @ + 1]

\* ---- the control handlers -------------------------------------------------------
\* the entry of Map.values() that follows the entry of pid last; entries are
\* in insertion order, which is the order of the pids
nextValue(m, last) ==
  LET later == {p \in DOMAIN m : p > last}
  IN IF later = {} THEN 0 ELSE CHOOSE p \in later : \A q \in later : p <= q

\* [...cameraProcesses.values()] of line 317, as the list of the pids
RECURSIVE mapValues(_, _)
mapValues(m, last) ==
  IF nextValue(m, last) = 0 THEN << >>
  ELSE <<nextValue(m, last)>> \o mapValues(m, nextValue(m, last))

\* lines 318-319: the stem of the process at index i (from 0) of the list
recordName(names, pid, i) ==
  IF MapGet(names.entries, pid) # Undefined
    THEN MapGet(names.entries, pid) ELSE NumToStr(i)
recordFile(session, name, date) ==
  session \o "_Video" \o name \o "--" \o formatDate(date)

\* the line a handler writes to the process pid
command(s, q, pid, file) ==
  CASE q.kind = "request" ->
         "addclient " \o ClientIp \o " " \o NumToStr(s.cameraProcesses[pid])
    [] q.kind = "record" ->
         "record \"" \o replaceAll(join(VideoDir, file), "\\", "\\\\") \o "\""
    [] q.kind = "stoprecord" -> "stoprecord"
    [] OTHER -> q.kind

newRequest(s, kind, session) ==
  [kind |-> kind, session |-> session, pc |-> "running", response |-> 0,
   atStart |-> DOMAIN s.cameraProcesses,
   list |-> IF kind = "record" THEN mapValues(s.cameraProcesses, 0) ELSE << >>,
   last |-> 0, index |-> 0, cur |-> 0, file |-> Null,
   writes |-> << >>, reported |-> {}]

\* the process the loop of the handler turns to next, 0 at the end of the loop
nextTarget(s, q) ==
  IF q.kind = "record"
    THEN (IF q.index < Len(q.list) THEN q.list[q.index + 1] ELSE 0)
    ELSE nextValue(s.cameraProcesses, q.last)

\* the loop has ended: the rest of the handler
respond(s, r) ==
  [s EXCEPT !.requests[r].pc = "done",
            !.requests[r].response = 200,
            !.currentRecordFiles =
               IF s.requests[r].kind = "stoprecord" THEN << >> ELSE @]

\* lines 303-307: only /request has a catch block around writeLn, and its
\* logError(...) builds the logging function without calling it
catchBlock(q, pid) ==
  IF q.kind = "request" THEN [q EXCEPT !.pc = "running"]
  ELSE [q EXCEPT !.pc = "aborted"]

RECURSIVE broadcast(_, _, _), thrown(_, _, _, _)

\* await writeLn(...) has thrown in request r
thrown(s, r, pid, date) ==
  LET s1 == [s EXCEPT !.requests[r] = catchBlock(@, pid)]
  IN IF s1.requests[r].pc = "running" THEN broadcast(s1, r, date) ELSE s1

\* the loop of a handler from its next process on, up to the first write
\* that waits for its callback
broadcast(s, r, date) ==
  LET q == s.requests[r]
      pid == nextTarget(s, q)
  IN IF pid = 0 THEN respond(s, r)
     ELSE
       LET file == IF q.kind = "record"
                     THEN recordFile(q.session,
                                     recordName(s.cameraNames, pid, q.index),
                                     date)
                     ELSE Null
           w == writeLn(s.stdin[pid], command(s, q, pid, file))
           s1 == [s EXCEPT !.requests[r].last = pid,
                           !.requests[r].index = @ + 1,
                           !.requests[r].file = file,
                           !.requests[r].writes = MapSet(@, pid, w)]
       IN IF w.status = "pending"
            THEN [s1 EXCEPT !.requests[r].cur = pid]
            ELSE thrown(s1, r, pid, date)

\* line 324: the stem is pushed once its write has been acknowledged
afterWrite(s, r, pid) ==
  IF s.requests[r].kind = "record"
    THEN [s EXCEPT !.currentRecordFiles =
            Append(@, [file |-> s.requests[r].file, call |-> r, pid |-> pid])]
    ELSE s

Serving == phase = "serving" /\ Len(requests) < MaxRequests

\* GET /request, lines 300-310
AddClient ==
  /\ Serving
  /\ LET s == [State EXCEPT !.requests =
                 Append(@, newRequest(State, "request", Null))]
     IN Becomes(broadcast(s, Len(s.requests), Date0))

\* a /record that empties the session list before it looks at the session
Record_ClearsFirst(session, date) ==
  /\ Serving
  /\ LET s == [State EXCEPT !.requests =
                 Append(@, newRequest(State, "record", session)),
                            !.currentRecordFiles = << >>]
         r == Len(s.requests)
     IN IF session = Null
          THEN Becomes([s EXCEPT !.requests[r].pc = "done",
                                 !.requests[r].response = 400])
          ELSE Becomes(broadcast(s, r, date))

\* GET /record, lines 313-327
Record(session, date) ==
  /\ Serving
  /\ LET s == [State EXCEPT !.requests =
                 Append(@, newRequest(State, "record", session))]
         r == Len(s.requests)
     IN IF session = Null
          THEN Becomes([s EXCEPT !.requests[r].pc = "done",
                                 !.requests[r].response = 400])
          ELSE Becomes(broadcast([s EXCEPT !.currentRecordFiles = << >>],
                                 r, date))

\* GET /stoprecord, lines 329-338, without the deleteFiles parameter
StopRecord ==
  /\ Serving
  /\ LET s == [State EXCEPT !.requests =
                 Append(@, newRequest(State, "stoprecord", Null))]
     IN Becomes(broadcast(s, Len(s.requests), Date0))

\* GET /play, /pause, /stop, lines 340-344
Command(cmd) ==
  /\ Serving
  /\ LET s == [State EXCEPT !.requests = Append(@, newRequest(State, cmd, Null))]
     IN Becomes(broadcast(s, Len(s.requests), Date0))

\* GET /setCameraNames, lines 384-387
SetCameraNames(query) ==
  /\ phase = "serving"
  /\ Becomes([State EXCEPT !.cameraNames = setCameraNames(@, query)])

\* the callback of the write request r waits for is called, with an error
\* (which destroys the stream) or without
WriteCallback(r, err, date) ==
  /\ phase = "serving"
  /\ r <= Len(requests)
  /\ requests[r].cur # 0
  /\ requests[r].kind # "record" => date = Date0
  /\ LET pid == requests[r].cur
         w == writeCallback(requests[r].writes[pid], err)
         s1 == [State EXCEPT !.requests[r].writes[pid] = w,
                             !.requests[r].cur = 0,
                             !.stdin[pid] = IF err # Null THEN "destroyed" ELSE @]
     IN Becomes(IF w.status = "resolved"
                  THEN broadcast(afterWrite(s1, r, pid), r, date)
                  ELSE thrown(s1, r, pid, date))

\* the stdin of a live process stops being writable (the process closed
\* its end of the pipe, or died and its exit event is still to come)
StdinCloses(p) ==
  /\ phase = "serving"
  /\ p \in DOMAIN cameraProcesses
  /\ stdin[p] = "writable"
  /\ Becomes([State EXCEPT !.stdin[p] = "destroyed"])

\* a live process exits: ChildProcess destroys its stdin, then emits exit
Exits(p) ==
  /\ phase = "serving"
  /\ p \in DOMAIN cameraProcesses
  /\ Becomes(emit([State EXCEPT !.stdin[p] = "destroyed"], p, "exit", "code"))

WriteErrors == {"EPIPE"}

ControlNext ==
  \/ \E cameras \in Discoveries : Startup(cameras)
  \/ AddClient
  \/ \E session \in Sessions \cup {Null}, date \in Dates : Record(session, date)
  \/ StopRecord
  \/ \E cmd \in Commands : Command(cmd)
  \/ \E query \in Queries : SetCameraNames(query)
  \/ \E r \in 1..MaxRequests, err \in WriteErrors \cup {Null}, date \in Dates :
       WriteCallback(r, err, date)
  \/ \E p \in Pids : StdinCloses(p)
  \/ \E p \in Pids : Exits(p)

\* the control handlers over the processes of the startup: no restart and
\* no termination signal arrives
ControlSpec == Init /\ [][ControlNext]_vars

\* ---- text ---------------------------------------------------------------------
\* String.substring, positions counted from 1 and both ends included
Sub(str, i, j) ==
  LET from == IF i < 1 THEN 1 ELSE i
      to == IF j > Len(str) THEN Len(str) ELSE j
  IN IF from > to THEN "" ELSE SubSeq(str, from, to)
Char(str, i) == Sub(str, i, i)
From(str, i) == Sub(str, i, Len(str))
Chars(str) == {Char(str, i) : i \in 1..Len(str)}
LowerCase == "abcdefghijklmnopqrstuvwxyz"
UpperCase == "ABCDEFGHIJKLMNOPQRSTUVWXYZ"
DigitChars == Chars("0123456789")

\* String.indexOf from position i (positions count from 1, 0 is "not found")
RECURSIVE IndexOf(_, _, _)
IndexOf(str, sub, i) ==
  IF i + Len(sub) - 1 > Len(str) THEN 0
  ELSE IF Sub(str, i, i + Len(sub) - 1) = sub THEN i
  ELSE IndexOf(str, sub, i + 1)

\* the position after the longest run of characters of class that starts at i
RECURSIVE RunEnd(_, _, _)
RunEnd(str, i, class) ==
  IF i <= Len(str) /\ Char(str, i) \in class
    THEN RunEnd(str, i + 1, class) ELSE i

\* the position where the longest run of characters of class that ends
\* before i starts
RECURSIVE RunStart(_, _, _)
RunStart(str, i, class) ==
  IF i > 1 /\ Char(str, i - 1) \in class
    THEN RunStart(str, i - 1, class) ELSE i

\* String.split by a separator that is not empty
RECURSIVE split(_, _)
split(str, sep) ==
  LET i == IndexOf(str, sep, 1)
  IN IF i = 0 THEN <<str>>
     ELSE <<Sub(str, 1, i - 1)>> \o split(From(str, i + Len(sep)), sep)

RECURSIVE trim(_)
trim(str) ==
  IF str # "" /\ Char(str, 1) = " " THEN trim(From(str, 2))
  ELSE IF str # "" /\ Char(str, Len(str)) = " "
    THEN trim(Sub(str, 1, Len(str) - 1))
  ELSE str

RECURSIVE toLowerCase(_)
toLowerCase(str) ==
  IF str = "" THEN ""
  ELSE LET i == IndexOf(UpperCase, Char(str, 1), 1)
       IN (IF i = 0 THEN Char(str, 1) ELSE Char(LowerCase, i))
            \o toLowerCase(From(str, 2))

\* ---- numbers --------------------------------------------------------------------
\* a JavaScript number that is a quotient of naturals: num/den in lowest
\* terms, 1/0 for Infinity and 0/0 for NaN
NaN == [num |-> 0, den |-> 0]
Infinity == [num |-> 1, den |-> 0]
Number(n) == [num |-> n, den |-> 1]
isNaN(x) == x = NaN

RECURSIVE GCD(_, _)
GCD(a, b) == IF b = 0 THEN a ELSE GCD(b, a % b)

\* x / y
Divide(x, y) ==
  IF isNaN(x) \/ isNaN(y) THEN NaN
  ELSE LET n == x.num * y.den
           d == x.den * y.num
           g == GCD(n, d)
       IN IF g = 0 THEN NaN ELSE [num |-> n \div g, den |-> d \div g]

\* x > y
Greater(x, y) ==
  /\ ~isNaN(x) /\ ~isNaN(y)
  /\ x.num * y.den > y.num * x.den

RECURSIVE DigitsValue(_, _)
DigitsValue(str, acc) ==
  IF str = "" THEN acc
  ELSE DigitsValue(From(str, 2),
                   acc * 10 + (IndexOf("0123456789", Char(str, 1), 1) - 1))

\* the unary plus of a text: 0 for the empty text, the value of a text of
\* decimal digits, NaN for a text with any other character the inputs have
ToNumber(str) ==
  IF trim(str) = "" THEN Number(0)
  ELSE IF Chars(trim(str)) \subseteq DigitChars
    THEN Number(DigitsValue(trim(str), 0))
  ELSE NaN

\* ---- parse.ts: the parameters of a cap -------------------------------------------
NoValue ==
  [valueType |-> Undefined, type |-> Undefined, value |-> Undefined,
   list |-> << >>, min |-> Undefined, mindenom |-> Undefined,
   max |-> Undefined, maxdenom |-> Undefined, step |-> Undefined]
Truthy(str) == str # Undefined /\ str # ""

\* line 147: /(?<name>[a-z\-]*)=(\((?<type>[a-z]*)\))?(?<rest>.*)/ matches
\* at the first "=", with the run of name characters that precedes it
paramGroups(params) ==
  LET e == IndexOf(params, "=", 1)
      k == RunEnd(params, e + 2, Chars(LowerCase))
      typed == Char(params, e + 1) = "(" /\ Char(params, k) = ")"
  IN IF e = 0 THEN << >>
     ELSE <<[name |-> Sub(params,
                             RunStart(params, e, Chars(LowerCase) \cup {"-"}),
                             e - 1),
             type |-> IF typed THEN Sub(params, e + 2, k - 1) ELSE Undefined,
             rest |-> IF typed THEN From(params, k + 1) ELSE From(params, e + 1)]>>

\* an entry of a choice that keeps its type
stripType_KeepsType(str) == trim(str)

\* line 166: s.trim().replace(/^\((?<type>[a-z]*)\)/, '')
stripType(str) ==
  LET t == trim(str)
      k == RunEnd(t, 2, Chars(LowerCase))
  IN IF Char(t, 1) = "(" /\ Char(t, k) = ")" THEN From(t, k + 1) ELSE t

\* with "{"; without a "}" there is no match, values and nextRest stay
choice(values, rest) ==
  LET c == IndexOf(rest, "}", 2)
      list == split(Sub(rest, 2, c - 1), ", ")
  IN IF c = 0 THEN [values |-> values, nextRest |-> << >>]
     ELSE [values |-> [values EXCEPT !.type = "choice",
                                     !.list = [i \in DOMAIN list |->
                                                 stripType(list[i])]],
           nextRest |-> <<From(rest, c + 1)>>]

\* the pattern of line 173 tried at position i of rest,
\*   \[ min(/mindenom)?, max(/maxdenom)?(, step)? \]
\* group by group: min ends before a2, mindenom before a3, max before b2,
\* maxdenom before b3 and step before c1
rangeGroups(rest, i, a2, a3, b2, b3, c1) ==
  IF /\ Sub(rest, i, i + 1) = "[ "
     /\ Sub(rest, a3, a3 + 1) = ", "
     /\ Sub(rest, c1, c1 + 1) = " ]"
    THEN <<[min |-> Sub(rest, i + 2, a2 - 1),
            mindenom |-> IF a3 > a2 THEN Sub(rest, a2 + 1, a3 - 1) ELSE Undefined,
            max |-> Sub(rest, a3 + 2, b2 - 1),
            maxdenom |-> IF b3 > b2 THEN Sub(rest, b2 + 1, b3 - 1) ELSE Undefined,
            step |-> IF c1 > b3 THEN Sub(rest, b3 + 2, c1 - 1) ELSE Undefined,
            rest |-> From(rest, c1 + 2)]>>
    ELSE << >>
rangeStep(rest, i, a2, a3, b2, b3) ==
  rangeGroups(rest, i, a2, a3, b2, b3,
              IF Sub(rest, b3, b3 + 1) = ", "
                THEN RunEnd(rest, b3 + 2, DigitChars) ELSE b3)
rangeMaxDenom(rest, i, a2, a3, b2) ==
  rangeStep(rest, i, a2, a3, b2,
            IF Char(rest, b2) = "/"
              THEN RunEnd(rest, b2 + 1, DigitChars) ELSE b2)
rangeMax(rest, i, a2, a3) ==
  rangeMaxDenom(rest, i, a2, a3, RunEnd(rest, a3 + 2, DigitChars))
rangeMinDenom(rest, i, a2) ==
  rangeMax(rest, i, a2,
           IF Char(rest, a2) = "/"
             THEN RunEnd(rest, a2 + 1, DigitChars) ELSE a2)
rangeAt(rest, i) == rangeMinDenom(rest, i, RunEnd(rest, i + 2, DigitChars))

\* String.match without anchor: the leftmost position where the pattern matches
RECURSIVE rangeMatch(_, _)
rangeMatch(rest, i) ==
  IF i > Len(rest) THEN << >>
  ELSE IF rangeAt(rest, i) # << >> THEN rangeAt(rest, i)
  ELSE rangeMatch(rest, i + 1)

\* lines 174-184: the values of a match m, none when there is no match
rangeValues(values, m) ==
  IF m = << >> THEN [values |-> values, nextRest |-> << >>]
  ELSE [values |->
          [values EXCEPT
             !.type = "range",
             !.min = m[1].min,
             !.mindenom = IF Truthy(m[1].mindenom) THEN m[1].mindenom ELSE @,
             !.max = m[1].max,
             !.maxdenom = IF Truthy(m[1].maxdenom) THEN m[1].maxdenom ELSE @,
             !.step = IF Truthy(m[1].step) THEN m[1].step ELSE @],
        nextRest |-> <<m[1].rest>>]

\* lines 172-184
range(values, rest) == rangeValues(values, rangeMatch(rest, 1))

\* lines 188-195: /(?<value>[^, ;]*)(?<rest>.*)/ always matches at the start
atom(values, rest) ==
  LET k == RunEnd(rest, 1, Chars(rest) \ {",", " ", ";"})
  IN [values |-> [values EXCEPT !.type = "atom", !.value = Sub(rest, 1, k - 1)],
      nextRest |-> <<From(rest, k)>>]

\* Object.assign(target, source)
ObjectAssign(target, source) ==
  [k \in DOMAIN target \cup DOMAIN source |->
     IF k \in DOMAIN source THEN source[k] ELSE target[k]]

\* parseCapParameters lines 143-202
RECURSIVE parseCapParameters(_)
parseCapParameters(params) ==
  LET g == paramGroups(params)
  IN IF g = << >> THEN << >>
     ELSE
       LET groups == g[1]
           values == [NoValue EXCEPT
                        !.valueType = IF Truthy(groups.type) THEN groups.type ELSE @]
           parsed == CASE Char(groups.rest, 1) = "{" -> choice(values, groups.rest)
                       [] Char(groups.rest, 1) = "[" -> range(values, groups.rest)
                       [] OTHER -> atom(values, groups.rest)
           rtv == [k \in {groups.name} |-> parsed.values]
           sub == IF parsed.nextRest = << >> THEN << >>
                  ELSE parseCapParameters(parsed.nextRest[1])
       IN ObjectAssign(rtv, sub)

\* lines 113-122: /^(?<type>[^,]*), (?<parameters>.*)/ and the cap made of it
parseCap(cap) ==
  LET j == IndexOf(cap, ",", 1)
  IN IF j = 0 \/ Char(cap, j + 1) # " " THEN << >>
     ELSE <<[type |-> Sub(cap, 1, j - 1),
             parameters |-> parseCapParameters(From(cap, j + 2))]>>

\* the concatenation of the sequences of a sequence
RECURSIVE Flatten(_)
Flatten(seqs) == IF seqs = << >> THEN << >> ELSE Head(seqs) \o Flatten(Tail(seqs))

\* lines 110-124: the caps of a device, those without a match filtered out
parseCaps(caps) == Flatten([i \in DOMAIN caps |-> parseCap(caps[i])])

\* ---- getCameras ---------------------------------------------------------------------
Param(c, name) ==
  IF name \in DOMAIN c.parameters THEN <<c.parameters[name]>> ELSE << >>
IsAtom(p) == p # << >> /\ p[1].type = "atom"

NoFormat == [kind |-> "undefined", width |-> NaN, height |-> NaN, fps |-> NaN,
             pixelFormat |-> Undefined]
TypeError == [NoFormat EXCEPT !.kind = "TypeError"]

\* lines 77-84: c.parameters.fps.type throws when the cap has no fps parameter
frameRate(c) ==
  LET framerate == Param(c, "framerate")
      fps == Param(c, "fps")
      s == split(framerate[1].value, "/")
  IN IF IsAtom(framerate)
       THEN (IF Len(s) # 2 THEN [kind |-> "undefined", fps |-> NaN]
             ELSE [kind |-> "number", fps |-> Divide(ToNumber(s[1]), ToNumber(s[2]))])
     ELSE IF fps = << >> THEN [kind |-> "TypeError", fps |-> NaN]
     ELSE IF fps[1].type = "range"
       THEN [kind |-> "number",
             fps |-> Divide(ToNumber(fps[1].max),
                            ToNumber(IF fps[1].maxdenom # Undefined
                                       THEN fps[1].maxdenom ELSE ""))]
     ELSE [kind |-> "number", fps |-> NaN]

\* lines 65-91: the format of one cap, undefined, or the TypeError thrown
format(c) ==
  LET width == IF IsAtom(Param(c, "width"))
                 THEN ToNumber(Param(c, "width")[1].value) ELSE NaN
      height == IF IsAtom(Param(c, "height"))
                  THEN ToNumber(Param(c, "height")[1].value) ELSE NaN
      rate == frameRate(c)
  IN IF isNaN(width) THEN NoFormat
     ELSE IF isNaN(height) THEN NoFormat
     ELSE IF rate.kind = "TypeError" THEN TypeError
     ELSE IF rate.kind = "undefined" \/ isNaN(rate.fps) THEN NoFormat
     ELSE [kind |-> "format", width |-> width, height |-> height,
           fps |-> rate.fps, pixelFormat |-> c.type]

IsFormat(f) == f.kind = "format"
Throws(f) == f.kind = "TypeError"
VideoFormat(f) ==
  [pixelFormat |-> f.pixelFormat, width |-> f.width, height |-> f.height,
   fps |-> f.fps]

\* a device filter that does not ask for the device path
camera_AnyPath(d) ==
  LET fs == [i \in DOMAIN d.caps |-> format(d.caps[i])]
      formats == SelectSeq(fs, IsFormat)
  IN IF \E i \in DOMAIN fs : Throws(fs[i]) THEN [kind |-> "TypeError"]
     ELSE IF formats = << >> THEN [kind |-> "undefined"]
     ELSE [kind |-> "camera", path |-> d.path,
           formats |-> [i \in DOMAIN formats |-> VideoFormat(formats[i])]]

\* lines 63-98: the camera of one device, undefined, or the TypeError thrown
camera(d) ==
  LET fs == [i \in DOMAIN d.caps |-> format(d.caps[i])]
      formats == SelectSeq(fs, IsFormat)
  IN IF d.path = Undefined THEN [kind |-> "undefined"]
     ELSE IF \E i \in DOMAIN fs : Throws(fs[i]) THEN [kind |-> "TypeError"]
     ELSE IF formats = << >> THEN [kind |-> "undefined"]
     ELSE [kind |-> "camera", path |-> d.path,
           formats |-> [i \in DOMAIN formats |-> VideoFormat(formats[i])]]

IsCamera(c) == c.kind = "camera"
CameraProperties(c) == [path |-> c.path, formats |-> c.formats]

\* getCameras lines 62-100 on the devices parseGstDevices returned
getCameras(devices) ==
  LET cs == [i \in DOMAIN devices |-> camera(devices[i])]
      kept == SelectSeq(cs, IsCamera)
  IN IF \E i \in DOMAIN cs : cs[i].kind = "TypeError"
       THEN [threw |-> TRUE, value |-> << >>]
       ELSE [threw |-> FALSE,
             value |-> [i \in DOMAIN kept |-> CameraProperties(kept[i])]]

\* ---- startCamera ------------------------------------------------------------------
\* Number.prototype.toString of a quotient: the integer part, then the
\* fraction digit by digit (up to 16 digits, not rounded)
RECURSIVE FractionDigits(_, _, _)
FractionDigits(r, den, n) ==
  IF r = 0 \/ n = 0 THEN ""
  ELSE NumToStr((r * 10) \div den) \o FractionDigits((r * 10) % den, den, n - 1)
NumberToString(x) ==
  IF isNaN(x) THEN "NaN"
  ELSE IF x.den = 0 THEN "Infinity"
  ELSE IF x.num % x.den = 0 THEN NumToStr(x.num \div x.den)
  ELSE NumToStr(x.num \div x.den) \o "."
         \o FractionDigits(x.num % x.den, x.den, 16)

IsJpeg(c) == toLowerCase(c.pixelFormat) = "image/jpeg"
IsFullHd(c) == c.width = Number(1920) /\ c.height = Number(1080)

\* a reducer that keeps the format it meets first
better_First(a, b) == a

\* a reducer that keeps the accumulator when the rates are equal
better_KeepsOnTie(a, b) == IF Greater(b.fps, a.fps) THEN b ELSE a

\* line 206: (a, b) => (a.fps > b.fps ? a : b)
better(a, b) == IF Greater(a.fps, b.fps) THEN a ELSE b

\* line 206: Array.reduce with this reducer, a the accumulator
RECURSIVE reduce(_, _)
reduce(list, a) ==
  IF list = << >> THEN a ELSE reduce(Tail(list), better(a, Head(list)))

\* startCamera lines 199-218: null, or the port and the arguments of spawn
startCamera(c, port) ==
  LET formats == SelectSeq(SelectSeq(c.formats, IsJpeg), IsFullHd)
      chosen == reduce(Tail(formats), Head(formats))
  IN IF Len(formats) = 0 THEN [kind |-> "null"]
     ELSE [kind |-> "process", port |-> port, format |-> chosen,
           spawnargs |-> <<"cam2rtpfile", "-c", c.path,
                           "-f", NumberToString(chosen.fps),
                           "-r", NumberToString(chosen.width) \o "x"
                                   \o NumberToString(chosen.height)>>]

\* ---- one discovery, from the output of gst-device-monitor on --------------------------
MaxListed == 2      \* devices in one output
MaxCaps == 2        \* caps of one device
MaxFormats == 3     \* formats of the camera given to startCamera

CapTexts ==
  {"image/jpeg, width=(int)1920, height=(int)1080, framerate=(fraction)30/1",
   "video/x-raw, format=(string)YUY2, width=(int)640, height=(int)480, framerate=(fraction)60/1",
   "image/jpeg, width=(int)wide, height=(int)1080, framerate=(fraction)30/1",
   "image/jpeg, width=(int)1920, height=(int)1080, framerate=(fraction){ 30/1, 15/1 }",
   "image/jpeg, width=(int)1920, height=(int)1080, framerate=(fraction){ 30/1, 15/1",
   "image/jpeg, format=(string){ MJPG, width=(int)1920, height=(int)1080, framerate=(fraction)30/1"}
DevicePaths == {Undefined, "/dev/video0"}
SeqsUpTo(S, n) == UNION {[1..k -> S] : k \in 0..n}
Outputs ==
  SeqsUpTo([path : DevicePaths, caps : SeqsUpTo(CapTexts, MaxCaps)], MaxListed)

DiscoveryInit ==
  /\ SupervisorInit
  /\ Idle
  /\ stage = "exec"
  /\ gstOutput \in Outputs
  /\ gstDevices = << >>
  /\ cameraList = << >>
  /\ cameraProperties = [path |-> "", formats |-> << >>]
  /\ cameraProcess = [kind |-> "none"]

\* parse.ts lines 110-126: the caps of every device are parsed
ParseGstDevices ==
  /\ stage = "exec"
  /\ stage' = "parsed"
  /\ gstDevices' = [i \in DOMAIN gstOutput |->
                      [path |-> gstOutput[i].path,
                       caps |-> parseCaps(gstOutput[i].caps)]]
  /\ UNCHANGED <<gstOutput, cameraList, cameraProperties, cameraProcess>>
  /\ UNCHANGED svars
  /\ UNCHANGED evars

\* lines 62-100: getCameras returns its list, or rejects with the TypeError
GetCameras ==
  /\ stage = "parsed"
  /\ stage' = IF getCameras(gstDevices).threw THEN "rejected" ELSE "listed"
  /\ cameraList' = getCameras(gstDevices).value
  /\ UNCHANGED <<gstOutput, gstDevices, cameraProperties, cameraProcess>>
  /\ UNCHANGED svars
  /\ UNCHANGED evars

DiscoveryNext == ParseGstDevices \/ GetCameras

DiscoverySpec == DiscoveryInit /\ [][DiscoveryNext]_vars

\* ---- one discovery of caps that differ in their frame rate -------------------------------
RateTexts ==
  {"image/jpeg, width=(int)1920, height=(int)1080, framerate=(fraction)30/1",
   "image/jpeg, width=(int)1920, height=(int)1080, framerate=(fraction)30/0",
   "image/jpeg, width=(int)1920, height=(int)1080, framerate=(fraction)30/x",
   "image/jpeg, width=(int)1920, height=(int)1080, framerate=(fraction)[ 15/1, 60/1 ]",
   "image/jpeg, width=(int)1920, height=(int)1080, fps=(fraction)[ 15/1, 60/1 ]",
   "image/jpeg, width=(int)1920, height=(int)1080, framerate=(fraction){ 30/1, 15/1 }"}
RatePaths == {"/dev/video0", "/dev/video1"}
RateOutputs ==
  SeqsUpTo([path : RatePaths, caps : SeqsUpTo(RateTexts, MaxCaps)], MaxListed)

RateInit ==
  /\ SupervisorInit
  /\ Idle
  /\ stage = "exec"
  /\ gstOutput \in RateOutputs
  /\ gstDevices = << >>
  /\ cameraList = << >>
  /\ cameraProperties = [path |-> "", formats |-> << >>]
  /\ cameraProcess = [kind |-> "none"]

RateSpec == RateInit /\ [][DiscoveryNext]_vars

\* ---- one discovery of caps in the two notations of gst-device-monitor --------------------
\* parse.ts lines 131-141: the values with their type before them, and
\* (ubuntu22) the values of a choice with their type inside the braces
NotationTexts ==
  {"image/jpeg, width=(int)1920, height=(int)1080, framerate=(fraction)30/1",
   "image/jpeg, width=1920, height=1080, framerate=30/1;",
   "image/jpeg, width=(int)1280, height=(int)960, framerate=(fraction)15/2",
   "image/jpeg, framerate={ (fraction)30/1, (fraction)25/1 }, width=1920, height=1080"}
NotationOutputs ==
  SeqsUpTo([path : DevicePaths, caps : SeqsUpTo(NotationTexts, MaxCaps)], MaxListed)

NotationInit ==
  /\ SupervisorInit
  /\ Idle
  /\ stage = "exec"
  /\ gstOutput \in NotationOutputs
  /\ gstDevices = << >>
  /\ cameraList = << >>
  /\ cameraProperties = [path |-> "", formats |-> << >>]
  /\ cameraProcess = [kind |-> "none"]

NotationSpec == NotationInit /\ [][DiscoveryNext]_vars

\* ---- one call of startCamera ------------------------------------------------------------
PixelFormats == {"image/jpeg", "Image/JPEG", "video/x-raw"}
Sizes == {<<1920, 1080>>, <<640, 480>>}
Rates == {15, 30, 60}
\* the full size at 30 and 60 frames a second, the small one at 15
VideoFormats ==
  {f \in {[pixelFormat |-> t, width |-> Number(z[1]), height |-> Number(z[2]),
           fps |-> Number(r)] : t \in PixelFormats, z \in Sizes, r \in Rates} :
     (f.fps = Number(15)) = (f.width = Number(640))}

FormatInit ==
  /\ SupervisorInit
  /\ Idle
  /\ stage = "idle"
  /\ gstOutput = << >>
  /\ gstDevices = << >>
  /\ cameraList = << >>
  /\ cameraProperties \in [path : {"/dev/video0"},
                           formats : SeqsUpTo(VideoFormats, MaxFormats)]
  /\ cameraProcess = [kind |-> "none"]

\* line 235: startCamera(cameraProperties, port + i)
StartCamera(port) ==
  /\ cameraProcess.kind = "none"
  /\ cameraProcess' = startCamera(cameraProperties, port)
  /\ UNCHANGED <<stage, gstOutput, gstDevices, cameraList, cameraProperties>>
  /\ UNCHANGED svars
  /\ UNCHANGED evars

FormatNext == \E i \in 0..(MaxDevices - 1) : StartCamera(BasePort + i)

FormatSpec == FormatInit /\ [][FormatNext]_vars

\* ---- the supervisor with /setCameraNames ------------------------------------------
NamesNext ==
  \/ Next
  \/ \E query \in Queries : SetCameraNames(query)

NamesSpec == Init /\ [][NamesNext]_vars

\* ---- GET /status -----------------------------------------------------------------
MaxFiles == 2       \* files in the video directory

\* what nodeDiskInfo.getDiskInfoSync() does: it returns the drives or throws
Drive == [filesystem |-> "/dev/sda1", blocks |-> 100, used |-> 40,
          available |-> 60, capacity |-> "40%", mounted |-> "/"]
DiskInfos == {[threw |-> TRUE, drives |-> << >>],
              [threw |-> FALSE, drives |-> <<Drive>>]}

\* getStorageStats lines 106-121: the storage devices, or null after a failure
getStorageStats(info) ==
  IF info.threw THEN [threw |-> FALSE, value |-> Null]
  ELSE [threw |-> FALSE,
        value |-> [i \in DOMAIN info.drives |->
                     [device |-> info.drives[i].filesystem,
                      size |-> info.drives[i].blocks,
                      used |-> info.drives[i].used,
                      available |-> info.drives[i].available,
                      use |-> info.drives[i].capacity,
                      mount |-> info.drives[i].mounted]]]

\* the results of readdir(videoDir): a list of names, or the rejection
FileName(i) == "video" \o NumToStr(i)
Listings == {[i \in 1..k |-> FileName(i)] : k \in 0..MaxFiles}
FsErrors == {"ENOENT"}

\* lines 372-377: the summaries of the processes of the live map
summaries(s) ==
  [i \in DOMAIN mapValues(s.cameraProcesses, 0) |->
     LET pid == mapValues(s.cameraProcesses, 0)[i]
     IN [pid |-> pid, exitCode |-> s.exitCode[pid],
         signalCode |-> s.signalCode[pid]]]

\* lines 366-367, and getVideos up to its readdir
status(q, info) ==
  LET stats == getStorageStats(info)
  IN IF stats.threw THEN [q EXCEPT !.pc = "aborted"]
     ELSE [q EXCEPT !.pc = "readdir", !.freeStorage = stats.value]

\* getVideos lines 127-130: readdir settles; the loop turns to the first file
readdirSettles(q, files, err) ==
  IF err # Null THEN [q EXCEPT !.pc = "aborted"]
  ELSE IF files = << >> THEN [q EXCEPT !.pc = "folderSize"]
  ELSE [q EXCEPT !.pc = "stat", !.files = files]

\* getVideos lines 130-137: stat of the file the loop is at settles
statSettles(q, size, err) ==
  IF err # Null THEN [q EXCEPT !.pc = "aborted"]
  ELSE LET file == Head(q.files)
           data == Append(q.videoFiles, [name |-> file, size |-> size])
       IN [q EXCEPT !.videoFiles = data,
                    !.files = Tail(@),
                    !.pc = IF Tail(q.files) = << >> THEN "folderSize" ELSE "stat"]

\* lines 369-382: folderSize settles and the response is sent
folderSizeSettles(s, q, size, err) ==
  IF err # Null THEN [q EXCEPT !.pc = "aborted"]
  ELSE [q EXCEPT !.pc = "done",
                 !.response = 200,
                 !.processes = summaries(s)]

StatusBecomes(q) ==
  /\ statusRequest' = q
  /\ UNCHANGED <<svars, dvars, timeZone, now, stems>>

\* GET /status, lines 365-368
Status(info) ==
  /\ phase = "serving"
  /\ statusRequest.pc = "none"
  /\ StatusBecomes(status(statusRequest, info))

ReaddirSettles(files, err) ==
  /\ phase = "serving"
  /\ statusRequest.pc = "readdir"
  /\ StatusBecomes(readdirSettles(statusRequest, files, err))

StatSettles(err) ==
  /\ phase = "serving"
  /\ statusRequest.pc = "stat"
  /\ StatusBecomes(statSettles(statusRequest, Len(statusRequest.files), err))

FolderSizeSettles(err) ==
  /\ phase = "serving"
  /\ statusRequest.pc = "folderSize"
  /\ StatusBecomes(folderSizeSettles(State, statusRequest,
                                     Len(statusRequest.videoFiles), err))

StatusNext ==
  \/ \E cameras \in Discoveries : Startup(cameras)
  \/ \E p \in Pids : Exits(p)
  \/ \E info \in DiskInfos : Status(info)
  \/ \E files \in Listings, err \in FsErrors \cup {Null} :
       ReaddirSettles(files, err)
  \/ \E err \in FsErrors \cup {Null} : StatSettles(err)
  \/ \E err \in FsErrors \cup {Null} : FolderSizeSettles(err)

\* the status handler over the processes of the startup
StatusSpec == Init /\ [][StatusNext]_vars

\* ---- new Date() and the stems of /record ----------------------------------------------
MaxStems == 2        \* record calls looked at
Hour == 3600
Day == 86400
\* the clock counts seconds from 2024-11-03T04:00:00Z, which is midnight of
\* the day on which America/New_York leaves daylight time (at 06:00:00Z)
TimeZones == {"UTC", "America/New_York"}
\* the instants at which the clock is read: around 00:00, 01:00 and 02:00 of
\* daylight time
Instants == {0, 1, Hour, Hour + 1, 2 * Hour, 2 * Hour + 1}

\* the local time of the instant t as seconds from midnight of 2024-11-03
localSeconds(t, zone) ==
  IF zone = "UTC" THEN t + 4 * Hour
  ELSE IF t < 2 * Hour THEN t ELSE t - Hour

\* the fields a Date of the instant t gives in the time zone of the host
\* (getFullYear, getMonth, getDate, getHours, getMinutes, getSeconds)
Date(t, zone) ==
  [year |-> 2024, month |-> 10,
   date |-> 3 + (localSeconds(t, zone) \div Day),
   hours |-> (localSeconds(t, zone) % Day) \div Hour,
   minutes |-> (localSeconds(t, zone) % Hour) \div 60,
   seconds |-> localSeconds(t, zone) % 60]

StemInit ==
  /\ SupervisorInit
  /\ NoDiscovery
  /\ statusRequest = NoStatus
  /\ timeZone \in TimeZones
  /\ now \in Instants
  /\ stems = << >>

\* line 319 in a record call made now: the stem of the process called name
MakeStem(session, name) ==
  /\ Len(stems) < MaxStems
  /\ stems' = Append(stems,
                     [at |-> now, session |-> session, name |-> name,
                      file |-> recordFile(session, name, Date(now, timeZone))])
  /\ UNCHANGED <<svars, dvars, statusRequest, timeZone, now>>

\* time passes
Passes(t) ==
  /\ t > now
  /\ now' = t
  /\ UNCHANGED <<svars, dvars, statusRequest, timeZone, stems>>

StemNext ==
  \/ \E session \in Sessions : MakeStem(session, NumToStr(0))
  \/ \E t \in Instants : Passes(t)

StemSpec == StemInit /\ [][StemNext]_vars

\* ---- vocabulary of the properties ------------------------------------------
Calls == 1..Len(calls)
Exists(c) == c <= Len(calls)
Terminated(p) == exitCode[p] # Null \/ signalCode[p] # Null
Pending(c, p) ==
  Exists(c) /\ p \in DOMAIN calls[c].tasks /\ calls[c].tasks[p] = "pending"
Restrict(m, S) == [q \in S |-> m[q]]

\* C1: after killProcesses returns, the entries it found in the live map that
\* are still in the map are exactly the entries whose kill was rejected.
C1_MapKeepsFailedKills ==
  \A c \in Calls :
    calls[c].returned =>
      calls[c].after \cap calls[c].before = failed(calls[c].tasks)

\* C2: every process that was live when killProcesses was called has been
\* killed and awaited when it returns: it has a result, the result is
\* fulfilled only if it emitted a terminal event, and no other process's
\* pending or rejected kill keeps the call from returning with that result.
C2_EveryLiveProcessSettled ==
  \A c \in Calls :
    calls[c].returned =>
      \A p \in calls[c].before :
        /\ p \in DOMAIN calls[c].tasks
        /\ calls[c].tasks[p] \in {"fulfilled", "rejected"}
        /\ calls[c].tasks[p] = "fulfilled" => nEvents[p] > 0

\* C3: a restart in which some kill was rejected never invokes startCameras
\* and answers 500; a restart invokes startCameras only after killProcesses
\* returned with every kill fulfilled.
C3_RestartNoRespawnOnFailure ==
  \A c \in Calls :
    calls[c].kind = "restart" =>
      /\ failed(calls[c].tasks) # {} =>
           /\ ~calls[c].startAll
           /\ calls[c].returned => calls[c].response = 500 /\ calls[c].pc = "done"
      /\ calls[c].startAll =>
           /\ calls[c].returned
           /\ \A p \in DOMAIN calls[c].tasks : calls[c].tasks[p] = "fulfilled"

C3_Witness ==
  \E c \in Calls :
    /\ calls[c].kind = "restart" /\ calls[c].returned
    /\ failed(calls[c].tasks) # {}
    /\ calls[c].response = 500

\* C4: when the program has exited after a termination signal whose graceful
\* killProcesses reported a rejected kill, a second killProcesses with SIGKILL
\* was performed before the exit.
C4_EscalatesToSigkill ==
  phase = "exited" =>
    \A c \in Calls :
      (calls[c].kind = "shutdown" /\ failed(calls[c].tasks) # {}) =>
        \E d \in Calls :
          d > c /\ calls[d].kind = "escalate" /\ calls[d].signal = "SIGKILL"

\* C5: the program exits with status 0 exactly when no kill of the graceful
\* killProcesses of a termination signal was rejected, otherwise non-zero.
C5_ExitStatusReflectsKills ==
  phase = "exited" =>
    (exitStatus = 0 <=>
       \A c \in Calls :
         calls[c].kind = "shutdown" => failed(calls[c].tasks) = {})

\* C6: once a termination signal has been received the program eventually
\* exits, whatever the managed processes do.
C6_ShutdownEventuallyExits ==
  (\E c \in 1..MaxCalls : Exists(c) /\ calls[c].kind = "shutdown")
    ~> (phase = "exited")

C6_Witness ==
  /\ phase = "exited"
  /\ \E c \in Calls :
       /\ calls[c].kind = "shutdown"
       /\ \E p \in DOMAIN calls[c].tasks :
            calls[c].tasks[p] = "rejected" /\ nEvents[p] = 0

\* C7: a pending killProcess never waits longer than KillTimeout and is
\* rejected at that bound when no terminal event came; while the program runs
\* it is again and again the case that no kill is pending and every
\* killProcesses call has returned, so each of them eventually settles.
C7_KillTimesOut ==
  /\ [](\A c \in 1..MaxCalls, p \in Pids :
          (Exists(c) /\ p \in DOMAIN calls[c].tasks) =>
            /\ calls[c].elapsed[p] <= KillTimeout
            /\ calls[c].tasks[p] = "rejected" => calls[c].elapsed[p] = KillTimeout)
  /\ []<>(\/ phase \in {"startup", "crashed", "exited"}
          \/ /\ pendingTasks = {}
             /\ \A c \in Calls : calls[c].returned)

C7_Witness ==
  \E c \in Calls :
    /\ calls[c].returned
    /\ \E p \in DOMAIN calls[c].tasks :
         /\ calls[c].tasks[p] = "rejected"
         /\ calls[c].elapsed[p] = KillTimeout
         /\ nEvents[p] = 0

\* C8: a killProcesses call removes an entry at once and without a signal only
\* if its process has already terminated; every entry of a process that has
\* not terminated is sent the signal and awaited.
C8_OnlyTerminatedDropped ==
  [][\A c \in 1..Len(calls') :
       c > Len(calls) =>
         /\ \A p \in calls'[c].removed : Terminated(p)
         /\ \A p \in calls'[c].before :
              ~Terminated(p) =>
                /\ p \in DOMAIN calls'[c].tasks
                /\ signalSent'[p] = KillSignal(calls'[c].signal)]_vars

\* C9: every key of the live map belongs to a process that has reported no
\* terminal event, and the step in which a process reports one leaves it out
\* of the map.
C9_LiveMapInvariant ==
  /\ [](\A p \in DOMAIN cameraProcesses : nEvents[p] = 0 /\ ~Terminated(p))
  /\ [][\A p \in Pids :
          nEvents'[p] > nEvents[p] => p \notin DOMAIN cameraProcesses']_vars

C9_Witness ==
  \E p \in Pids, q \in Pids :
    /\ p # q /\ p < nextPid
    /\ nEvents[p] > 0
    /\ q \in DOMAIN cameraProcesses

\* C10: the first terminal event of a process removes its entry and no other;
\* every later event of that process leaves the map as it is.
C10_RemovalExactlyOnce ==
  [][\A p \in Pids :
       nEvents'[p] = nEvents[p] + 1 =>
         IF nEvents[p] = 0
           THEN cameraProcesses' =
                  Restrict(cameraProcesses, DOMAIN cameraProcesses \ {p})
           ELSE cameraProcesses' = cameraProcesses]_vars

C10_Witness ==
  \E p \in Pids :
    /\ nEvents[p] >= 2
    /\ DOMAIN cameraProcesses # {}

\* ---- the control handlers ------------------------------------------------------
Requests == 1..Len(requests)
Over(q) == q.pc # "running"
Written(q) == {p \in DOMAIN q.writes : q.writes[p].chunk # ""}
Rejected(q) == {p \in DOMAIN q.writes : q.writes[p].status = "rejected"}
NoWrite == [status |-> "rejected", error |-> CannotWrite, chunk |-> "", acks |-> 0]
\* writeLn is called on pid by request r in this step
Calls_writeLn(r, pid) ==
  /\ r <= Len(requests')
  /\ pid \in DOMAIN requests'[r].writes
  /\ ~(r <= Len(requests) /\ pid \in DOMAIN requests[r].writes)

\* C11: in every broadcast handler a failed write to one process neither
\* keeps the command from the other live processes nor goes unreported: once
\* the handler is over, writeLn has been called for every process that was
\* live throughout, and every rejected write has been logged
C11_BroadcastNotAborted ==
  \A r \in Requests :
    (Over(requests[r]) /\ requests[r].response # 400) =>
       /\ requests[r].atStart \cap DOMAIN cameraProcesses
            \subseteq DOMAIN requests[r].writes
       /\ Rejected(requests[r]) \subseteq requests[r].reported

\* C12: writeLn on a stdin that is absent or not writable rejects at once
\* with "Cannot write to process stdin" and hands nothing to the stream,
\* for every command, and in every call a handler makes
C12_UnwritableFailsAtOnce ==
  /\ [](\A stream \in Streams \ {"writable"},
           str \in Commands \cup {"stoprecord"} : writeLn(stream, str) = NoWrite)
  /\ [][\A r \in 1..MaxRequests, pid \in Pids :
          (Calls_writeLn(r, pid) /\ stdin[pid] # "writable") =>
             requests'[r].writes[pid] = NoWrite]_vars

\* a handler has called writeLn on a process whose stdin was destroyed
C12_Witness ==
  \E r \in Requests, pid \in Pids :
    /\ pid \in DOMAIN requests[r].writes
    /\ requests[r].writes[pid] = NoWrite
    /\ stdin[pid] = "destroyed"

\* C13: a write that writeLn performs is the command followed by a newline;
\* its promise is pending exactly until the callback of the write has been
\* called, then resolved if the callback reported no error and rejected with
\* the error otherwise; once settled it never changes; and nothing but the
\* callback of the write (no output or event of the process) settles it
C13_SettlesOnAcknowledgment ==
  /\ [](\A r \in Requests : \A pid \in Written(requests[r]) :
          LET q == requests[r]
              w == q.writes[pid]
          IN /\ SubSeq(w.chunk, Len(w.chunk), Len(w.chunk)) = "\n"
             /\ q.kind \in Commands \cup {"stoprecord"} => w.chunk = q.kind \o "\n"
             /\ q.kind = "request" =>
                  \E port \in BasePort..(BasePort + MaxDevices) :
                    w.chunk = "addclient " \o ClientIp \o " "
                                \o NumToStr(port) \o "\n"
             /\ w.acks <= 1
             /\ (w.status = "pending") = (w.acks = 0)
             /\ (w.status = "pending") = (q.cur = pid)
             /\ w.status = "resolved" => w.error = Null
             /\ w.status = "rejected" => w.error \in WriteErrors)
  /\ [][\A r \in Requests : \A pid \in Written(requests[r]) :
          LET w == requests[r].writes[pid]
          IN /\ w.status # "pending" => requests'[r].writes[pid] = w
             /\ (w.status = "pending" /\ requests'[r].writes[pid] # w) =>
                  \E err \in WriteErrors \cup {Null}, date \in Dates :
                    WriteCallback(r, err, date)]_vars

\* one write has been resolved and one rejected by their callbacks
C13_Witness ==
  \E r1, r2 \in Requests :
    /\ \E pid \in Written(requests[r1]) :
         requests[r1].writes[pid].status = "resolved"
    /\ \E pid \in Written(requests[r2]) :
         requests[r2].writes[pid].status = "rejected"

\* C14: a failing discovery does not crash the supervisor: the startup is
\* never left by a crash, and a restart whose kills all succeeded answers 200
C14_DiscoveryFailureTolerated ==
  /\ phase # "crashed"
  /\ \A c \in Calls :
       (calls[c].kind = "restart" /\ calls[c].pc = "done"
          /\ failed(calls[c].tasks) = {}) => calls[c].response = 200

C16_LabelInStem ==
  [][\A r \in 1..MaxRequests, pid \in Pids :
       (/\ Calls_writeLn(r, pid)
        /\ requests'[r].kind = "record"
        /\ NumToStr(pid) \in DOMAIN cameraNames.props) =>
          \E date \in Dates :
            requests'[r].file =
              recordFile(requests'[r].session,
                         cameraNames.props[NumToStr(pid)], date)]_vars

\* C17: the step that ends a stop-record handler leaves the list empty, and
\* the step in which a record call starts leaves no stem of another call
C17_ListCleared ==
  [][\A r \in 1..MaxRequests :
       r <= Len(requests') =>
         LET q == requests'[r]
             new == r > Len(requests)
         IN /\ (q.kind = "stoprecord" /\ Over(q)
                  /\ (new \/ ~Over(requests[r]))) =>
                  currentRecordFiles' = << >>
            /\ (q.kind = "record" /\ new /\ q.response # 400) =>
                  \A i \in DOMAIN currentRecordFiles' :
                    currentRecordFiles'[i].call = r]_vars

\* ---- startCamera and the discovery --------------------------------------------------
\* the formats startCamera may choose from: image/jpeg in any letter case, 1920x1080
Matching(c) ==
  {i \in DOMAIN c.formats :
     /\ c.formats[i].pixelFormat \in {"image/jpeg", "Image/JPEG"}
     /\ c.formats[i].width = Number(1920)
     /\ c.formats[i].height = Number(1080)}

Usable(text) ==
  /\ parseCap(text) # << >>
  /\ format(parseCap(text)[1]).kind = "format"
UsableFormats(d) ==
  LET texts == SelectSeq(d.caps, Usable)
  IN [i \in DOMAIN texts |-> VideoFormat(format(parseCap(texts[i])[1]))]
HasUsable(d) == \E i \in DOMAIN d.caps : Usable(d.caps[i])
WithUsable(out) ==
  LET ds == SelectSeq(out, HasUsable)
  IN [i \in DOMAIN ds |-> [path |-> ds[i].path, formats |-> UsableFormats(ds[i])]]

HasPath(d) == d.path # Undefined
\* a cap with a numeric width and height whose frame rate is not a single
\* fraction and that has no fps parameter
NoRate(text) ==
  /\ parseCap(text) # << >>
  /\ LET c == parseCap(text)[1]
     IN /\ IsAtom(Param(c, "width"))
        /\ ~isNaN(ToNumber(Param(c, "width")[1].value))
        /\ IsAtom(Param(c, "height"))
        /\ ~isNaN(ToNumber(Param(c, "height")[1].value))
        /\ ~IsAtom(Param(c, "framerate"))
        /\ Param(c, "fps") = << >>
Rejecting(d) == HasPath(d) /\ \E i \in DOMAIN d.caps : NoRate(d.caps[i])

Malformed(text) ==
  \/ IndexOf(text, "{", 1) # 0 /\ IndexOf(text, "}", 1) = 0
  \/ IndexOf(text, "[", 1) # 0 /\ IndexOf(text, "]", 1) = 0
\* the cap of a text, with no parameter when the text is malformed
Emptied(text) ==
  IF Malformed(text) /\ parseCap(text) # << >>
    THEN <<[type |-> parseCap(text)[1].type, parameters |-> << >>]>>
    ELSE parseCap(text)
EmptiedDevices(out) ==
  [i \in DOMAIN out |->
     [path |-> out[i].path,
      caps |-> Flatten([j \in DOMAIN out[i].caps |-> Emptied(out[i].caps[j])])]]

\* C20: the cap of a malformed line has no parameter, and the discovery ends
\* as it does when the malformed lines have no parameter: it does not throw
\* because of them and it lists the same devices and formats
C20_MalformedNeverRaises ==
  /\ stage # "exec" =>
       \A i \in DOMAIN gstOutput : \A j \in DOMAIN gstOutput[i].caps :
         Malformed(gstOutput[i].caps[j]) =>
           parseCap(gstOutput[i].caps[j]) = Emptied(gstOutput[i].caps[j])
  /\ stage \in {"listed", "rejected"} =>
       /\ (stage = "rejected") = getCameras(EmptiedDevices(gstOutput)).threw
       /\ cameraList = getCameras(EmptiedDevices(gstOutput)).value

\* ---- the status handler ----------------------------------------------------------
\* C21: the status handler never ends without a response, whatever the disk
\* statistics, the directory listing, the file statistics and the folder
\* size did, and its response has summaries of spawned processes
C21_StatusAlwaysResponds ==
  /\ statusRequest.pc # "aborted"
  /\ statusRequest.pc = "done" =>
       /\ statusRequest.response = 200
       /\ \A i \in DOMAIN statusRequest.processes :
            statusRequest.processes[i].pid < nextPid

\* ---- the stems -----------------------------------------------------------------------
\* a text of the form dddd-dd-dd-dd-dd-dd
StampWidth == 19
IsStamp(str) ==
  /\ Len(str) = StampWidth
  /\ \A i \in 1..StampWidth :
       IF i \in {5, 8, 11, 14, 17} THEN Char(str, i) = "-"
       ELSE Char(str, i) \in DigitChars
Stamp(file) == From(file, Len(file) - StampWidth + 1)
Stem(file) == Sub(file, 1, Len(file) - StampWidth)

\* C22: the stems of two record calls with the same session and name, made
\* at least a second apart, are different, are equal up to the time stamp,
\* and end with a time stamp of the form YYYY-MM-DD-HH-MM-SS
C22_StemsDistinct ==
  \A i \in DOMAIN stems, j \in DOMAIN stems :
    (/\ stems[j].at >= stems[i].at + 1
     /\ stems[i].session = stems[j].session
     /\ stems[i].name = stems[j].name) =>
       /\ stems[i].file # stems[j].file
       /\ Stem(stems[i].file) = Stem(stems[j].file)
       /\ IsStamp(Stamp(stems[i].file)) /\ IsStamp(Stamp(stems[j].file))

\* ---- the camera names -----------------------------------------------------------------
\* C23: the names change only in a step of set-camera-names, which leaves
\* the live map and the processes alone; a spawn, a terminal event, a
\* killProcesses call and a restart leave the names as they are
C23_NamesIndependent ==
  [][/\ cameraNames' # cameraNames =>
          \E query \in Queries :
            /\ SetCameraNames(query)
            /\ cameraNames' = setCameraNames(cameraNames, query)
     /\ (\/ cameraProcesses' # cameraProcesses
         \/ nEvents' # nEvents
         \/ calls' # calls
         \/ nextPid' # nextPid) => cameraNames' = cameraNames]_vars

\* process 1 has a name, has emitted a terminal event and is not in the map
C23_Witness ==
  /\ NumToStr(1) \in DOMAIN cameraNames.props
  /\ nEvents[1] > 0
  /\ 1 \notin DOMAIN cameraProcesses
  /\ \E c \in Calls : calls[c].kind = "restart" /\ calls[c].returned

\* ---- the broadcasts and the live map ----------------------------------------------------
\* C24: a handler calls writeLn only for a process that is in the live map at
\* the time of the call: a process that a terminal event removed while the
\* request waited for an earlier write is not turned to any more
C24_ActsOnLiveMap ==
  [][\A r \in 1..MaxRequests, pid \in Pids :
       Calls_writeLn(r, pid) => pid \in DOMAIN cameraProcesses]_vars

\* ---- restart and shutdown ------------------------------------------------------------
\* the restart c has got as far as startCameras
Respawning(c) == calls[c].kind = "restart" /\ calls[c].startAll

\* C25: a restart has got as far as startCameras only if none of the kills
\* its killProcesses issued is pending, and the step in which a restart
\* spawns processes is the step of a restart none of whose kills is pending
C25_BarrierBeforeRespawn ==
  /\ [](\A c \in Calls :
          Respawning(c) =>
            \A p \in DOMAIN calls[c].tasks : calls[c].tasks[p] # "pending")
  /\ [][(phase = "serving" /\ nextPid' > nextPid) =>
          \E c \in Calls :
            /\ Respawning(c)
            /\ calls[c].pc = "getCameras" /\ calls'[c].pc = "done"
            /\ \A p \in DOMAIN calls[c].tasks : ~Pending(c, p)]_vars

\* a restart has killed two processes, waited for both, and has run
\* startCameras
C25_Witness ==
  \E c \in Calls :
    /\ Respawning(c) /\ calls[c].response = 200
    /\ Cardinality(DOMAIN calls[c].tasks) >= 2
    /\ \A p \in DOMAIN calls[c].tasks : calls[c].tasks[p] = "fulfilled"


\* C26: when the program has exited, no kill that any killProcesses call
\* issued is pending: each has seen a terminal event or its timeout
C26_ExitsAfterKillsSettle ==
  phase = "exited" =>
    \A c \in Calls : \A p \in DOMAIN calls[c].tasks :
      calls[c].tasks[p] # "pending"


\* ---- the tie-break of startCamera ----------------------------------------------------
\* the matching formats than which no matching format has a greater rate
Fastest(c) ==
  {i \in Matching(c) :
     \A j \in Matching(c) : ~Greater(c.formats[j].fps, c.formats[i].fps)}
First(S) == CHOOSE i \in S : \A j \in S : i <= j
Last(S) == CHOOSE i \in S : \A j \in S : i >= j

\* C27: of the matching formats with the greatest frame rate, startCamera
\* selects the one that comes first in the list
C27_FirstWinsTies ==
  cameraProcess.kind = "process" =>
    cameraProcess.format =
      cameraProperties.formats[First(Fastest(cameraProperties))]

\* C27 (amended): of the matching formats with the greatest frame rate,
\* startCamera selects the one that comes last in the list
C27_LastWinsTies ==
  cameraProcess.kind = "process" =>
    cameraProcess.format =
      cameraProperties.formats[Last(Fastest(cameraProperties))]

\* two matching formats at 60 fps that differ in the case of their tag: the
\* second one is selected
C27_Witness ==
  /\ Len(cameraProperties.formats) >= 2
  /\ cameraProperties.formats[1] =
       [pixelFormat |-> "image/jpeg", width |-> Number(1920),
        height |-> Number(1080), fps |-> Number(60)]
  /\ cameraProperties.formats[2] =
       [pixelFormat |-> "Image/JPEG", width |-> Number(1920),
        height |-> Number(1080), fps |-> Number(60)]
  /\ Fastest(cameraProperties) = {1, 2}
  /\ cameraProcess.kind = "process"
  /\ cameraProcess.format = cameraProperties.formats[2]


\* ---- the frame rates of the discovery ------------------------------------------------
\* the parts of the fraction of a cap whose frame rate is a single fraction
Fraction(text) ==
  IF parseCap(text) # << >> /\ IsAtom(Param(parseCap(text)[1], "framerate"))
    THEN split(Param(parseCap(text)[1], "framerate")[1].value, "/")
    ELSE << >>
\* a fraction whose denominator is zero or not a number
BadDenominator(text) ==
  /\ Len(Fraction(text)) = 2
  /\ ToNumber(Fraction(text)[2]) \in {NaN, Number(0)}
GoodDenominator(text) == ~BadDenominator(text)
WithoutBadDenominators(out) ==
  [i \in DOMAIN out |->
     [path |-> out[i].path, caps |-> SelectSeq(out[i].caps, GoodDenominator)]]

\* C28: a list getCameras returns is the list it would return without the
\* caps whose fraction has a zero or non-numeric denominator: these caps are
\* left out, the other caps and the devices that have them are kept
C28_BadDenominatorExcluded ==
  stage = "listed" =>
    cameraList =
      WithUsable(SelectSeq(WithoutBadDenominators(gstOutput), HasPath))

\* the range of a cap whose frame rate (framerate, or fps) is a range
Range(text) ==
  IF parseCap(text) = << >> THEN << >>
  ELSE LET framerate == Param(parseCap(text)[1], "framerate")
           fps == Param(parseCap(text)[1], "fps")
       IN IF framerate # << >> /\ framerate[1].type = "range" THEN framerate
          ELSE IF fps # << >> /\ fps[1].type = "range" THEN fps
          ELSE << >>
RangeRate(text) ==
  Divide(ToNumber(Range(text)[1].max),
         ToNumber(IF Range(text)[1].maxdenom = Undefined THEN "1"
                  ELSE Range(text)[1].maxdenom))
Finite(x) == ~isNaN(x) /\ x.den # 0

\* C29: getCameras does not raise, and for every cap with a numeric width
\* and height whose frame rate is a range with a finite max/maxdenom the
\* device is listed with a format of that frame rate
C29_RangeRateResolved ==
  stage \in {"listed", "rejected"} =>
    /\ stage = "listed"
    /\ \A i \in DOMAIN gstOutput : \A j \in DOMAIN gstOutput[i].caps :
         (Range(gstOutput[i].caps[j]) # << >>
            /\ Finite(RangeRate(gstOutput[i].caps[j]))) =>
           \E k \in DOMAIN cameraList :
             /\ cameraList[k].path = gstOutput[i].path
             /\ \E f \in DOMAIN cameraList[k].formats :
                  cameraList[k].formats[f].fps = RangeRate(gstOutput[i].caps[j])


\* ---- the ports ---------------------------------------------------------------------------
\* the index (from 0) of the n-th device of the list that spawns
RECURSIVE SpawnIndex(_, _, _)
SpawnIndex(cameras, n, i) ==
  IF cameras[i] = "spawn"
    THEN (IF n = 1 THEN i - 1 ELSE SpawnIndex(cameras, n - 1, i + 1))
    ELSE SpawnIndex(cameras, n, i + 1)

\* C30: the processes one startCameras call spawns are, in the order of
\* their spawning, the devices of the list that spawn, in the order of the
\* list; each has the port BasePort + i of its index i, so the ports increase
C30_PortsByDiscoveryIndex ==
  [][\A cameras \in Discoveries :
       (Startup(cameras) \/ \E c \in 1..MaxCalls : RestartStarts(c, cameras)) =>
          /\ \A n \in 1..Spawns(cameras) :
               /\ nextPid + n - 1 \in DOMAIN cameraProcesses'
               /\ cameraProcesses'[nextPid + n - 1] =
                    BasePort + SpawnIndex(cameras, n, 1)
          /\ \A p, q \in DOMAIN cameraProcesses' \ DOMAIN cameraProcesses :
               p < q => cameraProcesses'[p] < cameraProcesses'[q]]_vars

\* two processes spawned by one call, with the ports 5000 and 5001
C30_Witness ==
  /\ {1, 2} \subseteq DOMAIN cameraProcesses
  /\ cameraProcesses[1] = BasePort
  /\ cameraProcesses[2] = BasePort + 1


\* ---- the notations of the caps ------------------------------------------------------------
\* a cap whose frame rate is written as the single fraction 30/1
Rate30(text) ==
  \/ IndexOf(text, "framerate=(fraction)30/1", 1) # 0
  \/ IndexOf(text, "framerate=30/1", 1) # 0
\* the choice of the two fractions with their types, its place in a cap, the
\* name of the parameter it is the value of and the text that follows it
TypedChoice == "{ (fraction)30/1, (fraction)25/1 }"
ChoiceAt(text) == IndexOf(text, TypedChoice, 1)
ChoiceName(text) ==
  Sub(text, RunStart(text, ChoiceAt(text) - 1, Chars(LowerCase) \cup {"-"}),
      ChoiceAt(text) - 2)
Following(text) == From(text, ChoiceAt(text) + Len(TypedChoice))
\* the digits written after name= in a text
DigitsOf(text, name) ==
  Sub(text, IndexOf(text, name \o "=", 1) + Len(name) + 1,
      RunEnd(text, IndexOf(text, name \o "=", 1) + Len(name) + 1, DigitChars) - 1)
\* the devices of an output that have a path and a cap
WithCaps(d) == HasPath(d) /\ d.caps # << >>

\* C31: the format derived from a cap whose frame rate is the fraction 30/1
\* has the frame rate 30; the parameter whose value is the choice
\* { (fraction)30/1, (fraction)25/1 } has the type choice and the list of
\* exactly 30/1 and 25/1, and the width and the height written after the
\* choice are parameters of the cap with the digits written
C31_NotationsParsed ==
  /\ stage # "exec" =>
       \A i \in DOMAIN gstOutput :
         /\ Len(gstDevices[i].caps) = Len(gstOutput[i].caps)
         /\ \A j \in DOMAIN gstOutput[i].caps :
              ChoiceAt(gstOutput[i].caps[j]) # 0 =>
                /\ Param(gstDevices[i].caps[j], ChoiceName(gstOutput[i].caps[j])) =
                     <<[NoValue EXCEPT !.type = "choice",
                                       !.list = <<"30/1", "25/1">>]>>
                /\ \A name \in {"width", "height"} :
                     IndexOf(Following(gstOutput[i].caps[j]), name \o "=", 1) # 0 =>
                       Param(gstDevices[i].caps[j], name) =
                         <<[NoValue EXCEPT
                              !.type = "atom",
                              !.value = DigitsOf(Following(gstOutput[i].caps[j]),
                                                 name)]>>
  /\ stage = "listed" =>
       /\ Len(cameraList) = Len(SelectSeq(gstOutput, WithCaps))
       /\ \A k \in DOMAIN cameraList :
            /\ Len(cameraList[k].formats) =
                 Len(SelectSeq(gstOutput, WithCaps)[k].caps)
            /\ \A j \in DOMAIN cameraList[k].formats :
                 Rate30(SelectSeq(gstOutput, WithCaps)[k].caps[j]) =>
                   cameraList[k].formats[j].fps = Number(30)

\* a device without path whose cap has the choice, followed by the width and
\* the height, and a device whose caps are written in both notations with the
\* fraction 30/1: it is listed with two formats of 30 frames a second
C31_Witness ==
  /\ stage = "listed"
  /\ Len(gstOutput) = 2
  /\ ~HasPath(gstOutput[1])
  /\ Len(gstOutput[1].caps) = 1
  /\ ChoiceAt(gstOutput[1].caps[1]) # 0
  /\ ChoiceName(gstOutput[1].caps[1]) = "framerate"
  /\ gstDevices[1].caps[1].parameters["framerate"].list = <<"30/1", "25/1">>
  /\ gstDevices[1].caps[1].parameters["width"].value = "1920"
  /\ gstDevices[1].caps[1].parameters["height"].value = "1080"
  /\ HasPath(gstOutput[2])
  /\ Len(gstOutput[2].caps) = 2
  /\ gstOutput[2].caps[1] # gstOutput[2].caps[2]
  /\ \A j \in 1..2 : Rate30(gstOutput[2].caps[j])
  /\ Len(cameraList) = 1
  /\ \A j \in 1..2 : cameraList[1].formats[j].fps = Number(30)


\* ---- respawning ------------------------------------------------------------------------
\* the processes that kill() has signalled and that have not terminated
SignalledRunning == {p \in 1..(nextPid - 1) : signalSent[p] # Null /\ ~Terminated(p)}

\* C32: the step in which startCameras spawns processes is never taken while
\* a process that was signalled has not terminated
C32_NoRespawnOverRunning ==
  [][nextPid' > nextPid => SignalledRunning = {}]_vars


\* C33: no two entries of the live map have the same port
C33_PortsUnique ==
  \A p, q \in DOMAIN cameraProcesses :
    p # q => cameraProcesses[p] # cameraProcesses[q]


\* ---- the session list ------------------------------------------------------------------
\* the record calls that got past the check of the session label
RecordCalls == {r \in Requests : requests[r].kind = "record" /\ requests[r].session # Null}
RecordInProgress == \E r \in RecordCalls : requests[r].pc = "running"
LastRecordCall == CHOOSE r \in RecordCalls : \A q \in RecordCalls : q <= r

\* C34: while no record call is in progress, every stem of the session list
\* was made by the record call that started last and was pushed after its
\* write was acknowledged, and no stem is in the list twice
C34_SessionListOfLastCall ==
  ~RecordInProgress =>
    /\ \A i \in DOMAIN currentRecordFiles :
         /\ currentRecordFiles[i].call = LastRecordCall
         /\ requests[currentRecordFiles[i].call]
              .writes[currentRecordFiles[i].pid].status = "resolved"
    /\ \A i, j \in DOMAIN currentRecordFiles :
         i # j => currentRecordFiles[i].file # currentRecordFiles[j].file


\* ---- the record request without a session -------------------------------------------------
\* the step in which a /record request without session label arrives
Unlabelled ==
  /\ Len(requests') = Len(requests) + 1
  /\ requests'[Len(requests')].kind = "record"
  /\ requests'[Len(requests')].session = Null

\* C35: a /record request without session label is answered with 400 in the
\* step it arrives in; it has written to no process, and the session list,
\* the live map, the streams and the other requests are as they were
C35_UnlabelledRecordRejected ==
  [][Unlabelled =>
       /\ requests'[Len(requests')].pc = "done"
       /\ requests'[Len(requests')].response = 400
       /\ requests'[Len(requests')].writes = << >>
       /\ SubSeq(requests', 1, Len(requests)) = requests
       /\ UNCHANGED <<currentRecordFiles, cameraProcesses, stdin, cameraNames>>]_vars

\* a record request has put a stem into the session list, and a request
\* without session label that came after it was answered with 400
C35_Witness ==
  /\ Len(requests) = 2
  /\ requests[1].kind = "record" /\ requests[1].response = 200
  /\ requests[2].kind = "record" /\ requests[2].session = Null
  /\ requests[2].response = 400
  /\ Len(currentRecordFiles) >= 1
  /\ DOMAIN cameraProcesses # {}

====
